---------------------------- MODULE Spec2Model ----------------------------
(***************************************************************************)
(* State-machine model of photo_portfolio/app.py: the category directories *)
(* under uploads/, the metadata document data/photos_metadata.json, and    *)
(* the operations that read and write them (upload, metadata edit, EXIF    *)
(* re-scan, delete), together with the pure EXIF decoding function.        *)
(*                                                                         *)
(* A file name is held split, as os.path.splitext splits it:               *)
(* [root |-> "IMG_1", ext |-> ".jpg"] is the name "IMG_1.jpg".             *)
(* A metadata record is a function from field names to strings.            *)
(***************************************************************************)
EXTENDS Integers, Sequences, FiniteSets, TLC

VARIABLES
    files,      \* files[c]: the directory uploads/c, file name -> content
    doc,        \* the metadata document on disk
    now,        \* the clock read by datetime.datetime.now()
    faults,     \* number of I/O failures that have happened so far
    edits,      \* number of metadata edits and re-scans made so far
    last,       \* the most recent call and what it returned
    hist,       \* hist[c]: the uploads into c, in call order, where recorded
    sess,       \* the sessions running a mutation step by step
    decoded,    \* input and output of one get_exif_data call
    store       \* the text of a metadata document read and rewritten

vars == <<files, doc, now, faults, edits, last, hist, sess, decoded, store>>

---------------------------------------------------------------------------
(* Bounds of the model *)

\* largest clock value: the number of uploads after which none is started
MaxClock == 2
\* largest number of uploads in a behaviour made of uploads alone
MaxUploads == 4
\* largest number of metadata edits and re-scans in one behaviour
MaxEdits == 2
\* largest number of injected I/O failures in one behaviour
MaxFaults == 1
\* largest number of uploads that set up the disk before sessions overlap
MaxSetup == 1
\* largest length of a key, field name or value of a serialized document
MaxStr == 2
\* largest number of times a document is read and rewritten
MaxRounds == 2

---------------------------------------------------------------------------
(* Names, categories, images *)

\* two of the six PHOTO_CATEGORIES
Categories == {"animals", "landscape"}

Name(root, ext) == [root |-> root, ext |-> ext]

\* os.path.splitext(filename): (root, ext)
SplitExt(filename) == <<filename.root, filename.ext>>

\* f"{base}_{counter}{ext}"
Suffixed(base, counter, ext) == Name(base \o "_" \o ToString(counter), ext)

NoName == Name("", "")

\* a field of a record, or a default: dict.get(key, default)
Get(rec, key, default) == IF key \in DOMAIN rec THEN rec[key] ELSE default

\* the record with no field: {}
EmptyRec == <<>>

---------------------------------------------------------------------------
(* EXIF decoding: get_exif_data *)

\* a tag value as PIL hands it over; s is its text, v its numbers
Val(kind, s, v) == [kind |-> kind, s |-> s, v |-> v]

StrVal(s) == Val("str", s, <<>>)
TupleVal(v) == Val("tuple", "", v)
RationalVal(v) == Val("rational", "", v)
IntVal(n) == Val("int", "", <<n>>)
BytesVal(s) == Val("bytes", s, <<>>)
DateVal(v) == Val("datetime", "", v)

Pad2(n) == IF n < 10 THEN "0" \o ToString(n) ELSE ToString(n)

Pad4(n) ==
    IF n < 10 THEN "000" \o ToString(n)
    ELSE IF n < 100 THEN "00" \o ToString(n)
    ELSE IF n < 1000 THEN "0" \o ToString(n)
    ELSE ToString(n)

RECURSIVE JoinInts(_)
\* the elements of a tuple, separated by ", "
JoinInts(v) ==
    IF Len(v) = 0 THEN ""
    ELSE IF Len(v) = 1 THEN ToString(v[1])
    ELSE ToString(v[1]) \o ", " \o JoinInts(Tail(v))

\* str(value).strip() for the string values of the model
Strip(s) == IF s = "NIKON Z 9 " THEN "NIKON Z 9" ELSE s

\* str(value)
PyStr(value) ==
    CASE value.kind = "str" -> value.s
      [] value.kind = "bytes" -> value.s
      [] value.kind = "int" -> ToString(value.v[1])
      [] value.kind = "tuple" ->
            IF Len(value.v) = 1 THEN "(" \o ToString(value.v[1]) \o ",)"
            ELSE "(" \o JoinInts(value.v) \o ")"
      [] value.kind = "rational" -> ToString(value.v[1]) \o "/" \o ToString(value.v[2])
      [] value.kind = "datetime" ->
            Pad4(value.v[1]) \o ":" \o Pad2(value.v[2]) \o ":" \o Pad2(value.v[3])
            \o " " \o Pad2(value.v[4]) \o ":" \o Pad2(value.v[5]) \o ":" \o Pad2(value.v[6])

\* isinstance(value, tuple)
IsTuple(value) == value.kind = "tuple"

\* value[0] / value[1] raises: IndexError or ZeroDivisionError
DivRaises(value) == Len(value.v) < 2 \/ value.v[2] = 0

\* num/den rounded to the nearest integer, ties to even (float formatting)
RoundDiv(num, den) ==
    LET q == num \div den
        r == num % den
    IN IF 2 * r < den THEN q
       ELSE IF 2 * r > den THEN q + 1
       ELSE IF q % 2 = 0 THEN q ELSE q + 1

\* f"{num/den:.1f}"
Fmt1(num, den) ==
    LET t == RoundDiv(10 * num, den)
    IN ToString(t \div 10) \o "." \o ToString(t % 10)

\* f"{num/den:.0f}"
Fmt0(num, den) == ToString(RoundDiv(num, den))

IsLeap(y) == (y % 4 = 0 /\ y % 100 # 0) \/ y % 400 = 0

DaysIn(y, m) ==
    IF m = 2 THEN (IF IsLeap(y) THEN 29 ELSE 28)
    ELSE IF m \in {4, 6, 9, 11} THEN 30 ELSE 31

\* datetime.strptime(str(value), '%Y:%m:%d %H:%M:%S') succeeds
DateParses(value) ==
    /\ value.kind = "datetime"
    /\ value.v[1] \in 1..9999
    /\ value.v[2] \in 1..12
    /\ value.v[3] \in 1..DaysIn(value.v[1], value.v[2])
    /\ value.v[4] \in 0..23
    /\ value.v[5] \in 0..59
    /\ value.v[6] \in 0..61

\* date_obj.strftime('%Y-%m-%d')
DateRender(value) ==
    Pad4(value.v[1]) \o "-" \o Pad2(value.v[2]) \o "-" \o Pad2(value.v[3])

\* the body of the for loop for one tag raises
TagRaises(tag, value) ==
    /\ tag \in {"FNumber", "ExposureTime", "FocalLength"}
    /\ IsTuple(value)
    /\ DivRaises(value)

\* exif_data after the body of the for loop for one tag that does not raise
TagStep(exif_data, tag, value) ==
    CASE tag = "Model" -> ("camera" :> Strip(PyStr(value))) @@ exif_data
      [] tag = "LensModel" -> ("lens" :> Strip(PyStr(value))) @@ exif_data
      [] tag = "DateTimeOriginal" ->
            IF DateParses(value)
            THEN ("date" :> DateRender(value)) @@ exif_data
            ELSE exif_data
      [] tag = "FNumber" ->
            IF IsTuple(value)
            THEN ("f_number" :> ("f/" \o Fmt1(value.v[1], value.v[2]))) @@ exif_data
            ELSE exif_data
      [] tag = "ExposureTime" ->
            IF IsTuple(value)
            THEN IF value.v[1] >= value.v[2]
                 THEN ("exposure" :> (Fmt1(value.v[1], value.v[2]) \o "byo")) @@ exif_data
                 ELSE ("exposure" :> ("1/" \o Fmt0(value.v[2], value.v[1]) \o "byo")) @@ exif_data
            ELSE exif_data
      [] tag = "ISOSpeedRatings" -> ("iso" :> ("ISO " \o PyStr(value))) @@ exif_data
      [] tag = "FocalLength" ->
            IF IsTuple(value)
            THEN ("focal_length" :> (Fmt0(value.v[1], value.v[2]) \o "mm")) @@ exif_data
            ELSE exif_data
      [] OTHER -> exif_data

RECURSIVE ExifLoop(_, _)
\* the for loop over exif.items(): the record built, or "raised"
ExifLoop(items, exif_data) ==
    IF Len(items) = 0 THEN [raised |-> FALSE, data |-> exif_data]
    ELSE IF TagRaises(items[1][1], items[1][2])
         THEN [raised |-> TRUE, data |-> EmptyRec]
         ELSE ExifLoop(Tail(items), TagStep(exif_data, items[1][1], items[1][2]))

\* an image file: whether Image.open reads it, and the items of img._getexif()
Image(opens, items) == [opens |-> opens, items |-> items]

\* get_exif_data(image_path): the record returned; no exception leaves it
GetExifData(image) ==
    IF ~image.opens THEN EmptyRec
    ELSE IF Len(image.items) = 0 THEN EmptyRec
    ELSE LET r == ExifLoop(image.items, EmptyRec)
         IN IF r.raised THEN EmptyRec ELSE r.data

---------------------------------------------------------------------------
(* File contents *)

\* the items of img._getexif() of a photo that carries camera tags
ShotItems ==
    << <<"Model", StrVal("NIKON Z 9 ")>>,
       <<"FNumber", TupleVal(<<28, 10>>)>>,
       <<"ExposureTime", TupleVal(<<1, 250>>)>>,
       <<"ISOSpeedRatings", IntVal(200)>>,
       <<"DateTimeOriginal", DateVal(<<2023, 12, 24, 10, 30, 0>>)>> >>

\* what a stored file holds: "plain" has no EXIF block, "shot" has camera
\* tags, "partial" is a file whose write stopped part way
Content(id) ==
    CASE id = "plain" -> Image(TRUE, <<>>)
      [] id = "shot" -> Image(TRUE, ShotItems)
      [] OTHER -> Image(FALSE, <<>>)

\* the files a client uploads: a name and the image it holds
UploadFiles ==
    {[name |-> Name("IMG", ".jpg"), image |-> "shot"],
     [name |-> Name("IMG_1", ".jpg"), image |-> "plain"]}

---------------------------------------------------------------------------
(* The metadata document: load_metadata, save_metadata *)

Absent == [kind |-> "absent", photos |-> EmptyRec]
Corrupt == [kind |-> "corrupt", photos |-> EmptyRec]
Json(photos) == [kind |-> "json", photos |-> photos]

\* load_metadata(): only FileNotFoundError is caught
LoadMetadata(d) ==
    CASE d.kind = "absent" -> [raised |-> FALSE, photos |-> EmptyRec]
      [] d.kind = "corrupt" -> [raised |-> TRUE, photos |-> EmptyRec]
      [] OTHER -> [raised |-> FALSE, photos |-> d.photos]

\* save_metadata(metadata): open(..., 'w') truncates, json.dump writes.
\* fault "save_open": open fails; fault "save_write": the write fails
\* after the truncation
SaveMetadata(d, photos, fault) ==
    CASE fault = "save_open" -> [raised |-> TRUE, doc |-> d]
      [] fault = "save_write" -> [raised |-> TRUE, doc |-> Corrupt]
      [] OTHER -> [raised |-> FALSE, doc |-> Json(photos)]

\* metadata["photos"][key] = rec
Put(photos, key, rec) == (key :> rec) @@ photos

\* del metadata["photos"][key]
Del(photos, key) == [k \in (DOMAIN photos) \ {key} |-> photos[k]]

\* datetime.datetime.now().strftime("%Y-%m-%d %H:%M:%S")
FormatDateTime(t) == "2024-01-0" \o ToString(t + 1) \o " 12:00:00"

\* datetime.datetime.now().strftime("%Y-%m-%d")
FormatDate(t) == "2024-01-0" \o ToString(t + 1)

---------------------------------------------------------------------------
(* The text of the metadata document: json.dump and json.load.  A string   *)
(* is a sequence of characters, a dict a sequence of <<key, value>> pairs  *)
(* in insertion order                                                      *)

\* the characters of the strings: a letter and the two json.dump escapes
Chars == {"a", "\"", "\\"}

RECURSIVE Escape(_)
\* the escapes of json.dump(..., ensure_ascii=False) inside a string
Escape(s) ==
    IF s = <<>> THEN <<>>
    ELSE (CASE Head(s) = "\"" -> <<"\\", "\"">>
            [] Head(s) = "\\" -> <<"\\", "\\">>
            [] OTHER -> <<Head(s)>>) \o Escape(Tail(s))

\* a string as json.dump writes it: quoted and escaped
EncodeString(s) == <<"\"">> \o Escape(s) \o <<"\"">>

RECURSIVE ScanStringRaw(_, _)
\* a scanner that ends the string at the first quote and keeps backslashes
ScanStringRaw(t, acc) ==
    IF t = <<>> THEN [raised |-> TRUE, s |-> <<>>, rest |-> <<>>]
    ELSE IF Head(t) = "\"" THEN [raised |-> FALSE, s |-> acc, rest |-> Tail(t)]
    ELSE ScanStringRaw(Tail(t), Append(acc, Head(t)))

RECURSIVE ScanString(_, _)
\* json.load on the text after an opening quote: the string up to the
\* closing quote with the escapes undone; JSONDecodeError on an unterminated
\* string or an invalid escape
ScanString(t, acc) ==
    IF t = <<>> THEN [raised |-> TRUE, s |-> <<>>, rest |-> <<>>]
    ELSE IF Head(t) = "\"" THEN [raised |-> FALSE, s |-> acc, rest |-> Tail(t)]
    ELSE IF Head(t) = "\\"
    THEN IF Len(t) < 2 \/ t[2] \notin {"\"", "\\"}
         THEN [raised |-> TRUE, s |-> <<>>, rest |-> <<>>]
         ELSE ScanString(Tail(Tail(t)), Append(acc, t[2]))
    ELSE ScanString(Tail(t), Append(acc, Head(t)))

\* json.load on one string literal
DecodeString(lit) ==
    LET r == IF lit = <<>> \/ Head(lit) # "\""
             THEN [raised |-> TRUE, s |-> <<>>, rest |-> <<>>]
             ELSE ScanString(Tail(lit), <<>>)
    IN  [raised |-> r.raised \/ r.rest # <<>>, s |-> r.s]

\* d[key] = value on a dict: a key already there keeps its position
DictSet(d, key, value) ==
    IF \E i \in 1..Len(d) : d[i][1] = key
    THEN [i \in 1..Len(d) |-> IF d[i][1] = key THEN <<key, value>> ELSE d[i]]
    ELSE Append(d, <<key, value>>)

\* json.dump of a photo record: its members in dict order
DumpRecord(rec) ==
    [i \in 1..Len(rec) |-> <<EncodeString(rec[i][1]), EncodeString(rec[i][2])>>]

\* json.dump(metadata, f, ensure_ascii=False, indent=4): the members of
\* metadata["photos"] in dict order
JsonDump(photos) ==
    [i \in 1..Len(photos) |-> <<EncodeString(photos[i][1]), DumpRecord(photos[i][2])>>]

RECURSIVE LoadRecord(_, _)
\* json.load on the members of a photo record
LoadRecord(members, acc) ==
    IF members = <<>> THEN [raised |-> FALSE, dict |-> acc]
    ELSE LET k == DecodeString(Head(members)[1])
             v == DecodeString(Head(members)[2])
         IN  IF k.raised \/ v.raised THEN [raised |-> TRUE, dict |-> <<>>]
             ELSE LoadRecord(Tail(members), DictSet(acc, k.s, v.s))

RECURSIVE LoadPhotos(_, _)
\* json.load on the members of "photos"
LoadPhotos(members, acc) ==
    IF members = <<>> THEN [raised |-> FALSE, dict |-> acc]
    ELSE LET k == DecodeString(Head(members)[1])
             v == LoadRecord(Head(members)[2], <<>>)
         IN  IF k.raised \/ v.raised THEN [raised |-> TRUE, dict |-> <<>>]
             ELSE LoadPhotos(Tail(members), DictSet(acc, k.s, v.dict))

\* json.load(f) on the text of the document
JsonLoad(text) == LoadPhotos(text, <<>>)

\* no document text is under study
NoStore == [text |-> <<>>, before |-> <<>>, once |-> <<>>, rounds |-> 0]

---------------------------------------------------------------------------
(* save_uploaded_photo *)

RECURSIVE ResolveLoop(_, _, _, _, _)
\* while os.path.exists(file_path): filename = f"{base}_{counter}{ext}"
ResolveLoop(dir, base, ext, filename, counter) ==
    IF filename \in dir
    THEN ResolveLoop(dir, base, ext, Suffixed(base, counter, ext), counter + 1)
    ELSE filename

\* a resolver that probes once: "if" where the code has "while"
ResolveNameOnce(dir, filename) ==
    IF filename \in dir
    THEN Suffixed(SplitExt(filename)[1], 1, SplitExt(filename)[2])
    ELSE filename

\* a resolver that starts its probes at the number of files in the directory
ResolveNameFromCount(dir, filename) ==
    ResolveLoop(dir, SplitExt(filename)[1], SplitExt(filename)[2], filename,
                Cardinality(dir))

\* the name save_uploaded_photo writes to, given the names in the directory
ResolveName(dir, filename) ==
    ResolveLoop(dir, SplitExt(filename)[1], SplitExt(filename)[2], filename, 1)

\* a record whose title keeps the extension
NewRecordKeepExt(category, t, filename, exif_data) ==
    exif_data @@ [category |-> category,
                  upload_date |-> FormatDateTime(t),
                  title |-> filename.root \o filename.ext]

\* the record save_uploaded_photo stores: {category, upload_date, title, **exif_data}
NewRecord(category, t, filename, exif_data) ==
    exif_data @@ [category |-> category,
                  upload_date |-> FormatDateTime(t),
                  title |-> SplitExt(filename)[1]]

\* with open(file_path, "wb") as f: f.write(...)
WriteFile(fs, category, filename, id) ==
    [fs EXCEPT ![category] = (filename :> id) @@ @]

\* save_uploaded_photo(file, category) on disk fs, document d, clock t:
\* the disk and document afterwards and the pair returned
UploadResult(fs, d, t, category, file, fault) ==
    LET filename == ResolveName(DOMAIN fs[category], file.name)
        exif_data == GetExifData(Content(file.image))
        ld == LoadMetadata(d)
        sv == SaveMetadata(d, Put(ld.photos, filename,
                                  NewRecord(category, t, filename, exif_data)), fault)
    IN  CASE fault = "file_open" ->
                [files |-> fs, doc |-> d, ok |-> FALSE, ret |-> NoName]
          [] fault = "file_write" ->
                [files |-> WriteFile(fs, category, filename, "partial"),
                 doc |-> d, ok |-> FALSE, ret |-> NoName]
          [] ld.raised ->
                [files |-> WriteFile(fs, category, filename, file.image),
                 doc |-> d, ok |-> FALSE, ret |-> NoName]
          [] sv.raised ->
                [files |-> WriteFile(fs, category, filename, file.image),
                 doc |-> sv.doc, ok |-> FALSE, ret |-> NoName]
          [] OTHER ->
                [files |-> WriteFile(fs, category, filename, file.image),
                 doc |-> sv.doc, ok |-> TRUE, ret |-> filename]

---------------------------------------------------------------------------
(* update_photo_metadata, display_photo_details, update_metadata_from_exif *)

\* update_photo_metadata(photo_path, new_metadata): the document afterwards
\* and whether an exception leaves the function (it catches none)
UpdateResult(d, photo_path, new_metadata, fault) ==
    LET ld == LoadMetadata(d)
        sv == SaveMetadata(d, Put(ld.photos, photo_path, new_metadata), fault)
    IN  IF ld.raised THEN [doc |-> d, ok |-> FALSE, raised |-> TRUE]
        ELSE IF sv.raised THEN [doc |-> sv.doc, ok |-> FALSE, raised |-> TRUE]
        ELSE [doc |-> sv.doc, ok |-> TRUE, raised |-> FALSE]

\* the values the admin can type into a field of the edit form
Typed ==
    [title |-> "New", location |-> "Tokyo",
     camera_settings |-> "f/8, 1/60", description |-> "At dawn"]

\* the fields of the edit form of display_photo_details
FormFields == {"title", "location", "date", "camera_settings", "description"}

\* new_metadata of display_photo_details: every form field, prefilled with
\* metadata.get(field, "") and retyped by the admin for the fields in edited
FormMetadata(metadata, edited) ==
    [f \in FormFields |-> IF f \in edited THEN Typed[f] ELSE Get(metadata, f, "")]

\* ", ".join(camera_settings)
JoinSettings(exif_data) ==
    LET a == IF "f_number" \in DOMAIN exif_data THEN <<exif_data["f_number"]>> ELSE <<>>
        b == IF "exposure" \in DOMAIN exif_data THEN <<exif_data["exposure"]>> ELSE <<>>
        c == IF "iso" \in DOMAIN exif_data THEN <<exif_data["iso"]>> ELSE <<>>
        l == a \o b \o c
    IN  CASE Len(l) = 0 -> ""
          [] Len(l) = 1 -> l[1]
          [] Len(l) = 2 -> l[1] \o ", " \o l[2]
          [] OTHER -> l[1] \o ", " \o l[2] \o ", " \o l[3]

\* new_metadata of update_metadata_from_exif
RescanMetadata(photo_path, existing_metadata, exif_data, t) ==
    [title |-> Get(existing_metadata, "title", SplitExt(photo_path)[1]),
     location |-> Get(existing_metadata, "location", ""),
     date |-> Get(exif_data, "date", Get(existing_metadata, "date", FormatDate(t))),
     camera_settings |->
        IF JoinSettings(exif_data) # "" THEN JoinSettings(exif_data)
        ELSE Get(existing_metadata, "camera_settings", ""),
     camera |-> Get(exif_data, "camera", Get(existing_metadata, "camera", "")),
     lens |-> Get(exif_data, "lens", Get(existing_metadata, "lens", "")),
     description |-> Get(existing_metadata, "description", "")]

\* update_metadata_from_exif(photo_path, category): load_metadata is called
\* outside the try block, save_metadata inside it
RescanResult(fs, d, t, photo_path, category, fault) ==
    LET ld == LoadMetadata(d)
        exif_data == GetExifData(Content(fs[category][photo_path]))
        existing_metadata == Get(ld.photos, photo_path, EmptyRec)
        sv == SaveMetadata(d, Put(ld.photos, photo_path,
                  RescanMetadata(photo_path, existing_metadata, exif_data, t)), fault)
    IN  IF photo_path \notin DOMAIN fs[category]
        THEN [doc |-> d, ok |-> FALSE, raised |-> FALSE]
        ELSE IF ld.raised THEN [doc |-> d, ok |-> FALSE, raised |-> TRUE]
        ELSE IF sv.raised THEN [doc |-> sv.doc, ok |-> FALSE, raised |-> FALSE]
        ELSE [doc |-> sv.doc, ok |-> TRUE, raised |-> FALSE]

---------------------------------------------------------------------------
(* delete_photo and the delete button of manage_photos *)

\* os.remove(img_path) raises: the file is missing, or the removal fails
RemoveRaises(fs, category, photo, fault) ==
    photo \notin DOMAIN fs[category] \/ fault = "remove"

\* the directory tree after os.remove(img_path)
RemoveFile(fs, category, photo) ==
    [fs EXCEPT ![category] = [n \in (DOMAIN @) \ {photo} |-> @[n]]]

\* a delete that drops the record before it removes the file
DeleteRecordFirst(fs, d, metadata, category, photo, fault) ==
    LET sv == SaveMetadata(d, Del(metadata, photo), "none")
    IN  IF RemoveRaises(fs, category, photo, fault)
        THEN [files |-> fs,
              doc |-> IF photo \in DOMAIN metadata THEN sv.doc ELSE d,
              ok |-> FALSE]
        ELSE [files |-> RemoveFile(fs, category, photo),
              doc |-> IF photo \in DOMAIN metadata THEN sv.doc ELSE d,
              ok |-> TRUE]

\* delete_photo(img_path, photo, metadata), img_path = uploads/category/photo,
\* metadata["photos"] passed in by the caller
DeleteResult(fs, d, metadata, category, photo, fault) ==
    LET sv == SaveMetadata(d, Del(metadata, photo), fault)
    IN  IF RemoveRaises(fs, category, photo, fault)
        THEN [files |-> fs, doc |-> d, ok |-> FALSE]
        ELSE IF photo \notin DOMAIN metadata
        THEN [files |-> RemoveFile(fs, category, photo), doc |-> d, ok |-> TRUE]
        ELSE IF sv.raised
        THEN [files |-> RemoveFile(fs, category, photo), doc |-> sv.doc, ok |-> FALSE]
        ELSE [files |-> RemoveFile(fs, category, photo), doc |-> sv.doc, ok |-> TRUE]

\* the delete button of manage_photos: os.remove, then load_metadata, del
\* and save_metadata, all inside one try block
AdminDeleteResult(fs, d, category, photo, fault) ==
    LET ld == LoadMetadata(d)
    IN  IF RemoveRaises(fs, category, photo, fault)
        THEN [files |-> fs, doc |-> d, ok |-> FALSE]
        ELSE IF ld.raised
        THEN [files |-> RemoveFile(fs, category, photo), doc |-> d, ok |-> FALSE]
        ELSE DeleteResult(fs, d, ld.photos, category, photo, fault)

---------------------------------------------------------------------------
(* The state after start-up, and the calls as atomic steps *)

\* the sessions of the server process
Sessions == {1, 2}

\* a session that runs no mutation
IdleSess ==
    [pc |-> "idle", op |-> "none", cat |-> "", name |-> NoName, image |-> "",
     patch |-> EmptyRec, file |-> NoName, loaded |-> EmptyRec]

\* the record of a call: its arguments, the injected failure, the result
Call(op, category, name, patch, fault, ok, raised, ret) ==
    [op |-> op, cat |-> category, name |-> name, patch |-> patch,
     fault |-> fault, ok |-> ok, raised |-> raised, ret |-> ret]

NoCall == Call("none", "", NoName, EmptyRec, "none", FALSE, FALSE, NoName)

\* the directories are created empty, the metadata document does not exist
Init ==
    /\ files = [c \in Categories |-> EmptyRec]
    /\ doc = Absent
    /\ now = 0
    /\ faults = 0
    /\ edits = 0
    /\ last = NoCall
    /\ hist = [c \in Categories |-> <<>>]
    /\ sess = [s \in Sessions |-> IdleSess]
    /\ decoded = [image |-> Image(TRUE, <<>>), done |-> FALSE, out |-> EmptyRec]
    /\ store = NoStore

\* no session is in the middle of a mutation
Quiet == \A s \in Sessions : sess[s].pc = "idle"

\* an injected failure is counted, and at most MaxFaults are injected
FaultOk(fault, allowed) ==
    /\ fault \in allowed
    /\ fault # "none" => faults < MaxFaults
    /\ faults' = IF fault = "none" THEN faults ELSE faults + 1

\* the failures of save_metadata that can be injected once the load succeeded
SaveFaults(d) ==
    IF LoadMetadata(d).raised THEN {} ELSE {"save_open", "save_write"}

\* one call of save_uploaded_photo(file, category)
SaveUploadedPhoto(category, file, fault) ==
    LET r == UploadResult(files, doc, now, category, file, fault)
    IN  /\ Quiet
        /\ FaultOk(fault, {"none", "file_open", "file_write"} \cup SaveFaults(doc))
        /\ files' = r.files
        /\ doc' = r.doc
        /\ now' = now + 1
        /\ last' = Call("upload", category, file.name, EmptyRec, fault, r.ok, FALSE, r.ret)
        /\ UNCHANGED <<edits, sess, decoded, store>>

\* an upload while the clock is below its bound
Upload(category, file, fault) ==
    /\ now < MaxClock
    /\ SaveUploadedPhoto(category, file, fault)
    /\ UNCHANGED hist

\* an upload that cannot fail, entered in the list of the uploads made
UploadRecorded(category, file) ==
    /\ now < MaxUploads
    /\ SaveUploadedPhoto(category, file, "none")
    /\ hist' = [hist EXCEPT ![category] = Append(@, [req |-> file.name, ret |-> last'.ret])]

\* the photo names the pages show: files on disk and keys of the document
KnownNames ==
    UNION {DOMAIN files[c] : c \in Categories} \cup DOMAIN doc.photos

\* one direct call of update_photo_metadata(photo_path, new_metadata)
UpdatePhotoMetadata(photo_path, new_metadata, fault) ==
    LET r == UpdateResult(doc, photo_path, new_metadata, fault)
    IN  /\ Quiet
        /\ photo_path \in KnownNames
        /\ FaultOk(fault, {"none"} \cup SaveFaults(doc))
        /\ doc' = r.doc
        /\ last' = Call("update", "", photo_path, new_metadata, fault, r.ok, r.raised, NoName)
        /\ edits < MaxEdits
        /\ edits' = edits + 1
        /\ UNCHANGED <<files, now, hist, sess, decoded, store>>

\* the edit form of display_photo_details submitted for photo_path, shown
\* with the stored record of the photo
DisplayPhotoDetails(photo_path, edited, fault) ==
    LET new_metadata == FormMetadata(Get(doc.photos, photo_path, EmptyRec), edited)
        r == UpdateResult(doc, photo_path, new_metadata, fault)
    IN  /\ Quiet
        /\ photo_path \in KnownNames
        /\ FaultOk(fault, {"none"} \cup SaveFaults(doc))
        /\ doc' = r.doc
        /\ last' = Call("form", "", photo_path, new_metadata, fault, r.ok, r.raised, NoName)
        /\ edits < MaxEdits
        /\ edits' = edits + 1
        /\ UNCHANGED <<files, now, hist, sess, decoded, store>>

\* one call of update_metadata_from_exif(photo_path, category)
UpdateMetadataFromExif(photo_path, category, fault) ==
    LET r == RescanResult(files, doc, now, photo_path, category, fault)
    IN  /\ Quiet
        /\ photo_path \in KnownNames
        /\ FaultOk(fault, {"none"} \cup
                IF photo_path \in DOMAIN files[category] THEN SaveFaults(doc) ELSE {})
        /\ doc' = r.doc
        /\ last' = Call("rescan", category, photo_path, EmptyRec, fault, r.ok, r.raised, NoName)
        /\ edits < MaxEdits
        /\ edits' = edits + 1
        /\ UNCHANGED <<files, now, hist, sess, decoded, store>>

\* the failures that can be injected into a delete of category/photo
DeleteFaults(category, photo, metadata) ==
    IF photo \notin DOMAIN files[category] THEN {}
    ELSE {"remove"} \cup (IF photo \in DOMAIN metadata THEN SaveFaults(doc) ELSE {})

\* one call of delete_photo(img_path, photo, metadata) with the metadata
\* display_photo_grid loaded for the page
DeletePhoto(category, photo, fault) ==
    LET ld == LoadMetadata(doc)
        r == DeleteResult(files, doc, ld.photos, category, photo, fault)
    IN  /\ Quiet
        /\ ~ld.raised
        /\ photo \in KnownNames
        /\ FaultOk(fault, {"none"} \cup DeleteFaults(category, photo, ld.photos))
        /\ files' = r.files
        /\ doc' = r.doc
        /\ last' = Call("delete", category, photo, EmptyRec, fault, r.ok, FALSE, NoName)
        /\ UNCHANGED <<now, edits, hist, sess, decoded, store>>

\* the delete button of manage_photos pressed for a listed photo whose
\* thumbnail could be made
ManagePhotosDelete(category, photo, fault) ==
    LET r == AdminDeleteResult(files, doc, category, photo, fault)
    IN  /\ Quiet
        /\ photo \in DOMAIN files[category]
        /\ Content(files[category][photo]).opens
        /\ FaultOk(fault, {"none", "remove"} \cup
                IF photo \in DOMAIN doc.photos THEN SaveFaults(doc) ELSE {})
        /\ files' = r.files
        /\ doc' = r.doc
        /\ last' = Call("admin_delete", category, photo, EmptyRec, fault, r.ok, FALSE, NoName)
        /\ UNCHANGED <<now, edits, hist, sess, decoded, store>>

\* display_photo_grid renders a category page: its first step is load_metadata
DisplayPhotoGrid(category) ==
    /\ Quiet
    /\ last' = Call("grid", category, NoName, EmptyRec, "none",
                    ~LoadMetadata(doc).raised, LoadMetadata(doc).raised, NoName)
    /\ UNCHANGED <<files, doc, now, faults, edits, hist, sess, decoded, store>>

\* the patches of the direct metadata updates
Patches == {[title |-> "New"]}

\* the sets of form fields the admin retypes before submitting
Edits == {{}, {"location"}}

Faults == {"none", "file_open", "file_write", "save_open", "save_write", "remove"}

Next ==
    \/ \E c \in Categories, u \in UploadFiles, f \in Faults : Upload(c, u, f)
    \/ \E p \in KnownNames, m \in Patches, f \in Faults : UpdatePhotoMetadata(p, m, f)
    \/ \E p \in KnownNames, e \in Edits, f \in Faults : DisplayPhotoDetails(p, e, f)
    \/ \E p \in KnownNames, c \in Categories, f \in Faults : UpdateMetadataFromExif(p, c, f)
    \/ \E c \in Categories, p \in KnownNames, f \in Faults : DeletePhoto(c, p, f)
    \/ \E c \in Categories, p \in KnownNames, f \in Faults : ManagePhotosDelete(c, p, f)
    \/ \E c \in Categories : DisplayPhotoGrid(c)

Spec == Init /\ [][Next]_vars

\* uploads alone, none of which fails
NextUploads == \E c \in Categories, u \in UploadFiles : UploadRecorded(c, u)

SpecUploads == Init /\ [][NextUploads]_vars

\* uploads and deletes, with their failures, and page renders
NextFiles ==
    \/ \E c \in Categories, u \in UploadFiles, f \in Faults : Upload(c, u, f)
    \/ \E c \in Categories, p \in KnownNames, f \in Faults : DeletePhoto(c, p, f)
    \/ \E c \in Categories, p \in KnownNames, f \in Faults : ManagePhotosDelete(c, p, f)
    \/ \E c \in Categories : DisplayPhotoGrid(c)

SpecFiles == Init /\ [][NextFiles]_vars

\* an upload that does not fail
Ingest(category, file) ==
    /\ now < MaxUploads
    /\ SaveUploadedPhoto(category, file, "none")
    /\ UNCHANGED hist

\* the delete button of the category page pressed for a file of the page,
\* and nothing fails
Remove(category, photo) ==
    /\ photo \in DOMAIN files[category]
    /\ DeletePhoto(category, photo, "none")

\* uploads and deletes across the categories, none of which fails
NextIngest ==
    \/ \E c \in Categories, u \in UploadFiles : Ingest(c, u)
    \/ \E c \in Categories, p \in KnownNames : Remove(c, p)

SpecIngest == Init /\ [][NextIngest]_vars

\* the sets of form fields retyped by an admin who notes the camera settings
SettingsEdits == {{"camera_settings"}, {"camera_settings", "description"}}

\* uploads, edits of the camera settings through the form, and re-scans,
\* none of which fails
NextRescan ==
    \/ \E c \in Categories, u \in UploadFiles : Upload(c, u, "none")
    \/ \E p \in KnownNames, e \in SettingsEdits : DisplayPhotoDetails(p, e, "none")
    \/ \E p \in KnownNames, c \in Categories : UpdateMetadataFromExif(p, c, "none")

SpecRescan == Init /\ [][NextRescan]_vars

---------------------------------------------------------------------------
(* Two sessions of one server process, each running one mutation as the    *)
(* sequence of its file-system and document accesses                       *)

\* an upload that sets up the disk before any session starts
SetupUpload(category, file) ==
    /\ now < MaxSetup
    /\ SaveUploadedPhoto(category, file, "none")
    /\ UNCHANGED hist

\* session s moves on; nothing but sess, the disk and the document changes
SessStep(s, next) ==
    /\ sess' = [sess EXCEPT ![s] = next]
    /\ UNCHANGED <<now, faults, edits, last, hist, decoded, store>>

\* save_uploaded_photo, lines 272-281: the name is resolved
UploadResolve(s, category, file) ==
    /\ sess[s].pc = "idle"
    /\ SessStep(s, [sess[s] EXCEPT !.pc = "resolved", !.op = "upload",
                        !.cat = category, !.name = file.name, !.image = file.image,
                        !.file = ResolveName(DOMAIN files[category], file.name)])
    /\ UNCHANGED <<files, doc>>

\* save_uploaded_photo, lines 284-285: the file is written
UploadWrite(s) ==
    /\ sess[s].pc = "resolved"
    /\ files' = WriteFile(files, sess[s].cat, sess[s].file, sess[s].image)
    /\ SessStep(s, [sess[s] EXCEPT !.pc = "written"])
    /\ UNCHANGED doc

\* save_uploaded_photo, line 289: the document is loaded
UploadLoad(s) ==
    /\ sess[s].pc = "written"
    /\ ~LoadMetadata(doc).raised
    /\ SessStep(s, [sess[s] EXCEPT !.pc = "loaded", !.loaded = LoadMetadata(doc).photos])
    /\ UNCHANGED <<files, doc>>

\* save_uploaded_photo, lines 294-300: the record is added and the document saved
UploadSave(s) ==
    /\ sess[s].pc = "loaded"
    /\ sess[s].op = "upload"
    /\ doc' = SaveMetadata(doc, Put(sess[s].loaded, sess[s].file,
                NewRecord(sess[s].cat, now, sess[s].file,
                          GetExifData(Content(sess[s].image)))), "none").doc
    /\ SessStep(s, [sess[s] EXCEPT !.pc = "done"])
    /\ UNCHANGED files

\* update_photo_metadata, line 66: the document is loaded
UpdateLoad(s, photo_path, new_metadata) ==
    /\ sess[s].pc = "idle"
    /\ photo_path \in KnownNames
    /\ ~LoadMetadata(doc).raised
    /\ SessStep(s, [sess[s] EXCEPT !.pc = "loaded", !.op = "update",
                        !.name = photo_path, !.file = photo_path,
                        !.patch = new_metadata, !.loaded = LoadMetadata(doc).photos])
    /\ UNCHANGED <<files, doc>>

\* update_photo_metadata, lines 69-70: the record is set and the document saved
UpdateSave(s) ==
    /\ sess[s].pc = "loaded"
    /\ sess[s].op = "update"
    /\ doc' = SaveMetadata(doc, Put(sess[s].loaded, sess[s].name, sess[s].patch), "none").doc
    /\ SessStep(s, [sess[s] EXCEPT !.pc = "done"])
    /\ UNCHANGED files

\* display_photo_grid, line 107: the document is loaded for the page whose
\* delete button is pressed
DeleteLoad(s, category, photo) ==
    /\ sess[s].pc = "idle"
    /\ photo \in DOMAIN files[category]
    /\ ~LoadMetadata(doc).raised
    /\ SessStep(s, [sess[s] EXCEPT !.pc = "loaded", !.op = "delete", !.cat = category,
                        !.name = photo, !.file = photo,
                        !.loaded = LoadMetadata(doc).photos])
    /\ UNCHANGED <<files, doc>>

\* delete_photo, lines 819-822: the file is removed, the record deleted from
\* the metadata passed in, and the document saved; lines 824-826 when
\* os.remove raises
DeleteSave(s) ==
    /\ sess[s].pc = "loaded"
    /\ sess[s].op = "delete"
    /\ LET r == DeleteResult(files, doc, sess[s].loaded, sess[s].cat, sess[s].name, "none")
       IN  /\ files' = r.files
           /\ doc' = r.doc
           /\ SessStep(s, [sess[s] EXCEPT !.pc = IF r.ok THEN "done" ELSE "failed"])

NextConc ==
    \/ \E c \in Categories, u \in UploadFiles : SetupUpload(c, u)
    \/ \E s \in Sessions, c \in Categories, u \in UploadFiles : UploadResolve(s, c, u)
    \/ \E s \in Sessions : UploadWrite(s)
    \/ \E s \in Sessions : UploadLoad(s)
    \/ \E s \in Sessions : UploadSave(s)
    \/ \E s \in Sessions, p \in KnownNames, m \in Patches : UpdateLoad(s, p, m)
    \/ \E s \in Sessions : UpdateSave(s)
    \/ \E s \in Sessions, c \in Categories, p \in KnownNames : DeleteLoad(s, c, p)
    \/ \E s \in Sessions : DeleteSave(s)

SpecConc == Init /\ [][NextConc]_vars

---------------------------------------------------------------------------
(* get_exif_data applied to one EXIF block *)

NoTag == Val("absent", "", <<>>)

\* the values a tag of the block can hold; NoTag: the tag is not in the block
TagValues(tag) ==
    CASE tag = "Model" -> {NoTag, StrVal("NIKON Z 9 ")}
      [] tag = "FNumber" ->
            {NoTag, TupleVal(<<28, 10>>), TupleVal(<<28, 0>>), RationalVal(<<28, 10>>)}
      [] tag = "ISOSpeedRatings" -> {NoTag, IntVal(200), BytesVal("b'\\x00'")}
      [] tag = "DateTimeOriginal" ->
            {NoTag, DateVal(<<2023, 12, 24, 10, 30, 0>>), DateVal(<<0, 0, 0, 0, 0, 0>>)}
      [] tag = "ExposureTime" -> {NoTag, TupleVal(<<1, 250>>), TupleVal(<<2, 1>>)}
      [] OTHER -> {NoTag, TupleVal(<<50, 1>>), TupleVal(<<50>>)}

\* the orders in which exif.items() can hand the tags over
TagOrders ==
    { <<"Model", "FNumber", "ISOSpeedRatings", "DateTimeOriginal", "ExposureTime", "FocalLength">>,
      <<"FocalLength", "ExposureTime", "DateTimeOriginal", "ISOSpeedRatings", "FNumber", "Model">> }

\* the block that holds the given value for each tag
Pick(model, fnumber, iso, date, exposure, focal) ==
    [Model |-> model, FNumber |-> fnumber, ISOSpeedRatings |-> iso,
     DateTimeOriginal |-> date, ExposureTime |-> exposure, FocalLength |-> focal]

\* the items of the block that holds pick[tag] for each tag, in the given order
Items(pick, order) ==
    LET present == SelectSeq(order, LAMBDA t : pick[t] # NoTag)
    IN  [i \in 1..Len(present) |-> <<present[i], pick[present[i]]>>]

\* the images get_exif_data is applied to
ExifInputs ==
    {Image(TRUE, Items(Pick(a, b, c, d, e, f), order)) :
        a \in TagValues("Model"), b \in TagValues("FNumber"),
        c \in TagValues("ISOSpeedRatings"), d \in TagValues("DateTimeOriginal"),
        e \in TagValues("ExposureTime"), f \in TagValues("FocalLength"),
        order \in TagOrders}

InitExif ==
    /\ files = [c \in Categories |-> EmptyRec]
    /\ doc = Absent
    /\ now = 0
    /\ faults = 0
    /\ edits = 0
    /\ last = NoCall
    /\ hist = [c \in Categories |-> <<>>]
    /\ sess = [s \in Sessions |-> IdleSess]
    /\ decoded \in {[image |-> i, done |-> FALSE, out |-> EmptyRec] : i \in ExifInputs}
    /\ store = NoStore

\* one call of get_exif_data on the image
DecodeExif ==
    /\ ~decoded.done
    /\ decoded' = [decoded EXCEPT !.done = TRUE, !.out = GetExifData(decoded.image)]
    /\ UNCHANGED <<files, doc, now, faults, edits, last, hist, sess, store>>

SpecExif == InitExif /\ [][DecodeExif]_vars

---------------------------------------------------------------------------
(* save_metadata(load_metadata()) on the documents save_metadata writes    *)

\* the strings of at most MaxStr characters
Strs == UNION {[1..n -> Chars] : n \in 0..MaxStr}

\* the photo records: empty, or one field with any value
StoredRecords == {<<>>} \cup {<< <<f, v>> >> : f \in {<<"a">>}, v \in Strs}

\* the keys of the documents
StoredKeys == {<<"a">>, <<"\"", "\\">>}

\* the dicts metadata["photos"] over StoredKeys, in either insertion order
StoredPhotos ==
    {<<>>}
    \cup {<< <<k, r>> >> : k \in StoredKeys, r \in StoredRecords}
    \cup {d \in {<< <<k1, r1>>, <<k2, r2>> >> :
                    k1 \in StoredKeys, k2 \in StoredKeys,
                    r1 \in StoredRecords, r2 \in StoredRecords} :
            d[1][1] # d[2][1]}

InitStore ==
    /\ files = [c \in Categories |-> EmptyRec]
    /\ doc = Absent
    /\ now = 0
    /\ faults = 0
    /\ edits = 0
    /\ last = NoCall
    /\ hist = [c \in Categories |-> <<>>]
    /\ sess = [s \in Sessions |-> IdleSess]
    /\ decoded = [image |-> Image(TRUE, <<>>), done |-> FALSE, out |-> EmptyRec]
    /\ store \in {[text |-> JsonDump(m), before |-> JsonDump(m),
                   once |-> JsonDump(m), rounds |-> 0] : m \in StoredPhotos}

\* save_metadata(load_metadata()) on the document: when json.load raises,
\* save_metadata is not reached and the text stays
SaveLoadMetadata ==
    LET metadata == JsonLoad(store.text)
        text == IF metadata.raised THEN store.text ELSE JsonDump(metadata.dict)
    IN  /\ store.rounds < MaxRounds
        /\ store' = [text |-> text,
                     before |-> store.before,
                     once |-> IF store.rounds = 0 THEN text ELSE store.once,
                     rounds |-> store.rounds + 1]
        /\ UNCHANGED <<files, doc, now, faults, edits, last, hist, sess, decoded>>

SpecStore == InitStore /\ [][SaveLoadMetadata]_vars

---------------------------------------------------------------------------
(* Claims *)

\* the uploads into c recorded before the i-th
Earlier(c, i) == {hist[c][j] : j \in 1..(i - 1)}

\* the number of uploads into c before the i-th that asked for the same name
Collisions(c, i) ==
    Cardinality({j \in 1..(i - 1) : hist[c][j].req = hist[c][i].req})

\* the name an upload asked for and the names the resolver derives from it
Family(req, n) == {req} \cup {Suffixed(req.root, m, req.ext) : m \in 1..n}

\* C1 as stated: in a run of uploads every returned identity is new, the
\* first upload of a name returns it unchanged and its k-th collision returns
\* base_k.ext, whatever other names are uploaded in between
C1_SuffixCountsCollisions ==
    \A c \in Categories : \A i \in 1..Len(hist[c]) :
        /\ hist[c][i].ret \notin {e.ret : e \in Earlier(c, i)}
        /\ hist[c][i].ret =
              IF Collisions(c, i) = 0 THEN hist[c][i].req
              ELSE Suffixed(hist[c][i].req.root, Collisions(c, i), hist[c][i].req.ext)

\* C1 amended: in a run of uploads every returned identity is new; an upload
\* returns its name unchanged when no file has that name, otherwise base_n.ext
\* for the least n >= 1 no file has; this is base_k.ext at the k-th collision
\* when no upload of another name has stored base.ext or a base_n.ext
C1_Uniqueness ==
    \A c \in Categories : \A i \in 1..Len(hist[c]) :
        LET req == hist[c][i].req
            ret == hist[c][i].ret
            dir == {e.ret : e \in Earlier(c, i)}
            others == {e.ret : e \in {x \in Earlier(c, i) : x.req # req}}
            k == Collisions(c, i)
        IN  /\ ret \notin dir
            /\ req \notin dir => ret = req
            /\ req \in dir =>
                 \E n \in 1..i :
                    /\ ret = Suffixed(req.root, n, req.ext)
                    /\ \A m \in 1..(n - 1) : Suffixed(req.root, m, req.ext) \in dir
            /\ others \cap Family(req, i) = {} =>
                 ret = IF k = 0 THEN req ELSE Suffixed(req.root, k, req.ext)

\* three uploads of IMG.jpg into one category returned IMG.jpg, IMG_1.jpg, IMG_2.jpg
C1_Witness ==
    \E c \in Categories :
        /\ Len(hist[c]) = 3
        /\ \A i \in 1..3 : hist[c][i].req = Name("IMG", ".jpg")
        /\ hist[c][3].ret = Name("IMG_2", ".jpg")

\* C2 as stated: a call of update_photo_metadata that does not fail sets the
\* fields of the patch and keeps every other field of the stored record
C2_MergeNonRegression ==
    [][(last'.op \in {"update", "form"} /\ last'.fault = "none" /\ ~last'.raised
            /\ last'.name \in DOMAIN doc.photos)
        => /\ last'.name \in DOMAIN doc'.photos
           /\ \A f \in DOMAIN last'.patch :
                 /\ f \in DOMAIN doc'.photos[last'.name]
                 /\ doc'.photos[last'.name][f] = last'.patch[f]
           /\ \A f \in (DOMAIN doc.photos[last'.name]) \ DOMAIN last'.patch :
                 /\ f \in DOMAIN doc'.photos[last'.name]
                 /\ doc'.photos[last'.name][f] = doc.photos[last'.name][f]]_vars

\* the removal of category/photo fails: the file is missing or os.remove fails
RemovalFails(category, photo, fault) ==
    photo \notin DOMAIN files[category] \/ fault = "remove"

\* C3: a delete whose file removal fails leaves the metadata document and the
\* disk as they were and reports failure
C3_FailedRemoveKeepsMetadata ==
    [][(last'.op \in {"delete", "admin_delete"}
            /\ RemovalFails(last'.cat, last'.name, last'.fault))
        => (doc' = doc /\ files' = files /\ ~last'.ok)]_vars

\* delete_photo failed on os.remove and the record of the photo is still stored
C3_Witness ==
    /\ last.op = "delete"
    /\ last.fault = "remove"
    /\ ~last.ok
    /\ last.name \in DOMAIN files[last.cat]
    /\ last.name \in DOMAIN doc.photos

\* C4 as stated: delete_photo of an identity whose file is missing and whose
\* record exists removes the record; of one whose file exists and whose
\* record is missing removes the file; neither raises
C4_DeleteTolerance ==
    [][(last'.op = "delete" /\ last'.fault = "none")
        => /\ ~last'.raised
           /\ (last'.name \notin DOMAIN files[last'.cat] /\ last'.name \in DOMAIN doc.photos)
                 => last'.name \notin DOMAIN doc'.photos
           /\ (last'.name \in DOMAIN files[last'.cat] /\ last'.name \notin DOMAIN doc.photos)
                 => last'.name \notin DOMAIN files'[last'.cat]]_vars

\* C5 as stated: a metadata edit or an EXIF re-scan that does not fail keeps
\* category and upload_date of every stored record
C5_IngestFieldsKept ==
    [][(last'.op \in {"update", "form", "rescan"} /\ last'.fault = "none" /\ last'.ok)
        => \A p \in DOMAIN doc.photos :
             \A f \in {"category", "upload_date"} \cap DOMAIN doc.photos[p] :
                /\ p \in DOMAIN doc'.photos
                /\ f \in DOMAIN doc'.photos[p]
                /\ doc'.photos[p][f] = doc.photos[p][f]]_vars

\* C6 as stated: load_metadata returns the empty store and does not raise
\* when the document is absent and when it is unparsable, so a page render
\* that starts with the load goes on
C6_LoadFallsBackToEmpty ==
    doc.kind \in {"absent", "corrupt"} =>
        /\ LoadMetadata(doc) = [raised |-> FALSE, photos |-> EmptyRec]
        /\ last.op = "grid" => ~last.raised

\* the files of category c before a step are there after it, unchanged
FilesKept(c) ==
    \A n \in DOMAIN files[c] : n \in DOMAIN files'[c] /\ files'[c][n] = files[c][n]

\* C7: a successful save_uploaded_photo returns the name it wrote: a new file
\* of that name exists, the files from before are kept, the store has a record
\* under that name with the category and the name without its extension as
\* title; a name taken once comes back as base_1.ext beside the first file
C7_IngestReturnsStoredIdentity ==
    [][(last'.op = "upload" /\ last'.ok)
        => /\ last'.ret \in DOMAIN files'[last'.cat]
           /\ last'.ret \notin DOMAIN files[last'.cat]
           /\ \A c \in Categories : FilesKept(c)
           /\ last'.ret \in DOMAIN doc'.photos
           /\ doc'.photos[last'.ret]["category"] = last'.cat
           /\ doc'.photos[last'.ret]["title"] = last'.ret.root
           /\ last'.name \notin DOMAIN files[last'.cat] => last'.ret = last'.name
           /\ (/\ last'.name \in DOMAIN files[last'.cat]
               /\ Suffixed(last'.name.root, 1, last'.name.ext) \notin DOMAIN files[last'.cat])
                 => /\ last'.ret = Suffixed(last'.name.root, 1, last'.name.ext)
                    /\ last'.name \in DOMAIN files'[last'.cat]
                    /\ last'.name \in DOMAIN doc.photos
                          => {last'.name, last'.ret} \subseteq DOMAIN doc'.photos]_vars

\* IMG_1.jpg was uploaded twice into one category: the second call returned
\* IMG_1_1.jpg, both files exist and the store has both keys
C7_Witness ==
    /\ last.op = "upload"
    /\ last.ok
    /\ last.name = Name("IMG_1", ".jpg")
    /\ last.ret = Name("IMG_1_1", ".jpg")
    /\ {last.name, last.ret} \subseteq DOMAIN files[last.cat]
    /\ {last.name, last.ret} \subseteq DOMAIN doc.photos

\* C8 as stated: a mutation whose write of the metadata document fails leaves
\* the document with the content it had and does not report success
C8_FailedSaveLeavesStore ==
    [][(last'.fault \in {"save_open", "save_write"})
        => (doc' = doc /\ ~last'.ok)]_vars

\* the key of the store that the mutation of session s writes or deletes
Key(s) == sess[s].file

\* the document shows the finished mutation of session s
Reflected(s) ==
    CASE sess[s].op = "upload" ->
            /\ Key(s) \in DOMAIN doc.photos
            /\ doc.photos[Key(s)]["category"] = sess[s].cat
      [] sess[s].op = "update" ->
            /\ Key(s) \in DOMAIN doc.photos
            /\ doc.photos[Key(s)] = sess[s].patch
      [] OTHER -> Key(s) \notin DOMAIN doc.photos

\* C9 as stated: when two sessions have each finished a mutation of a
\* different key, however their steps interleaved, the document shows both
C9_NoLostUpdate ==
    ((\A s \in Sessions : sess[s].pc = "done") /\ Key(1) # Key(2))
        => \A s \in Sessions : Reflected(s)

\* the field get_exif_data derives from a tag
FieldOf(tag) ==
    CASE tag = "Model" -> "camera"
      [] tag = "LensModel" -> "lens"
      [] tag = "DateTimeOriginal" -> "date"
      [] tag = "FNumber" -> "f_number"
      [] tag = "ExposureTime" -> "exposure"
      [] tag = "ISOSpeedRatings" -> "iso"
      [] OTHER -> "focal_length"

\* the source value of a tag is valid for its field
ValidSource(tag, value) ==
    CASE tag \in {"Model", "LensModel"} -> value.kind = "str"
      [] tag = "DateTimeOriginal" -> DateParses(value)
      [] tag = "ISOSpeedRatings" -> value.kind = "int"
      [] OTHER -> value.kind = "tuple" /\ Len(value.v) = 2 /\ value.v[2] # 0

\* C10 as stated: whatever tag of the block fails, the record get_exif_data
\* returns has the field of every tag whose source value is valid
C10_TagFailuresAreLocal ==
    decoded.done =>
        \A i \in 1..Len(decoded.image.items) :
            ValidSource(decoded.image.items[i][1], decoded.image.items[i][2])
                => FieldOf(decoded.image.items[i][1]) \in DOMAIN decoded.out

\* every file on disk before a step is there afterwards with the same content
FilesIntact ==
    \A c \in Categories : \A n \in DOMAIN files[c] :
        n \in DOMAIN files'[c] /\ files'[c][n] = files[c][n]

\* every record load_metadata returned before a step is returned afterwards
RecordsIntact ==
    \A k \in DOMAIN LoadMetadata(doc).photos :
        /\ ~LoadMetadata(doc').raised
        /\ k \in DOMAIN LoadMetadata(doc').photos
        /\ LoadMetadata(doc').photos[k] = LoadMetadata(doc).photos[k]

\* C11 as stated: a save_uploaded_photo call that fails returns (False,
\* message) without raising and leaves every file and every metadata record
\* of the files ingested before it as they were
C11_FailureIsolated ==
    [][(last'.op = "upload" /\ ~last'.ok)
        => (~last'.raised /\ FilesIntact /\ RecordsIntact)]_vars

\* C12: once save_metadata(load_metadata()) has run on a document that
\* save_metadata wrote, json.load returns the same keys, records and values
\* as before, without raising, and a second run leaves the text of the first
C12_RoundTrip ==
    store.rounds >= 1
        => /\ ~JsonLoad(store.before).raised
           /\ JsonLoad(store.text) = JsonLoad(store.before)
           /\ store.rounds >= 2 => store.text = store.once

\* two round trips were made on a document with two photos, one of them
\* with a value that holds a quote and a backslash
C12_Witness ==
    /\ store.rounds >= 2
    /\ Len(JsonLoad(store.text).dict) = 2
    /\ \E i \in 1..2 :
            JsonLoad(store.text).dict[i][2] = << <<(<<"a">>), (<<"\"", "\\">>)>> >>

\* ret is filename when dir has no such name, and otherwise base_n.ext for
\* the smallest n >= 1 such that dir has no base_n.ext
SmallestUnused(dir, filename, ret) ==
    IF filename \notin dir THEN ret = filename
    ELSE \E n \in 1..(Cardinality(dir) + 1) :
            /\ ret = Suffixed(SplitExt(filename)[1], n, SplitExt(filename)[2])
            /\ ret \notin dir
            /\ \A m \in 1..(n - 1) :
                    Suffixed(SplitExt(filename)[1], m, SplitExt(filename)[2]) \in dir

\* C13: a successful save_uploaded_photo call returns, and writes to, the
\* desired name when the category directory has no file of that name at the
\* call, and otherwise base_n.ext for the smallest n >= 1 unused there,
\* whatever uploads and deletes came before
C13_SmallestUnusedName ==
    [][(last'.op = "upload" /\ last'.ok)
        => /\ SmallestUnused(DOMAIN files[last'.cat], last'.name, last'.ret)
           /\ DOMAIN files'[last'.cat] = DOMAIN files[last'.cat] \cup {last'.ret}]_vars

\* IMG.jpg was just stored as IMG_1.jpg while IMG_2.jpg is in the directory:
\* the suffix 1, freed by a delete, is used again
C13_Witness ==
    /\ last.op = "upload" /\ last.ok
    /\ last.name = Name("IMG", ".jpg")
    /\ last.ret = Name("IMG_1", ".jpg")
    /\ Name("IMG_2", ".jpg") \in DOMAIN files[last.cat]

\* C14 as stated: every file uploads/c/name has a metadata record whose
\* category field is c
C14_RecordPerCategoryFile ==
    \A c \in Categories : \A n \in DOMAIN files[c] :
        /\ n \in DOMAIN LoadMetadata(doc).photos
        /\ Get(LoadMetadata(doc).photos[n], "category", "") = c

\* the fields of a record the admin edits
EditableFields == {"title", "location", "description", "camera_settings"}

\* C15 as stated: a re-scan that succeeds on a photo with a record leaves
\* every editable field the record holds in the record, with its value
C15_RescanKeepsEditable ==
    [][(last'.op = "rescan" /\ last'.ok /\ last'.name \in DOMAIN doc.photos)
        => \A f \in EditableFields \cap DOMAIN doc.photos[last'.name] :
              /\ f \in DOMAIN doc'.photos[last'.name]
              /\ doc'.photos[last'.name][f] = doc.photos[last'.name][f]]_vars

=============================================================================
